---- MODULE Spec2Model ----
(***************************************************************************)
(* Model of the entra-exporter collector/cache/refresh subsystem:          *)
(* main's collector setup, BaseCollector (client factory and refresh       *)
(* loop), the users/devices/general collect passes, the prometheus render  *)
(* path and the HTTP handlers.                                             *)
(***************************************************************************)
EXTENDS Integers, Sequences, FiniteSets, TLC

(* ------------------------------ bounds -------------------------------- *)

\* collect invocations one domain loop performs
MaxCycles == 2
\* failures injected in one run (fetch errors, credential errors, panics)
MaxFaults == 2
\* pages one pass accumulates for one tenant before only a failure can end it
MaxFetched == 2
\* concurrent callers of GetGraphClient in the factory harness
NumCallers == 2

(* --------------------------- configuration ---------------------------- *)

Domains == {"general", "users", "devices"}

ListDomains == {"users", "devices"}

\* config.Collector.<domain>.ScrapeTime, in interval units
ScrapeConfigs ==
    { [general |-> 0, users |-> 2, devices |-> -1],
      [general |-> -1, users |-> 0, devices |-> 1],
      [general |-> 1, users |-> -1, devices |-> 0] }

\* config.Azure.Tenants with AZURE_TENANT_ID
Deployments ==
    { [tenants |-> << "t2", "t1" >>, env |-> ""],
      [tenants |-> << >>, env |-> "tE"],
      [tenants |-> << "" >>, env |-> "tE"],
      [tenants |-> << >>, env |-> ""] }

\* HTTP clients, each with one request in flight at a time
Scrapers == { "s1" }

\* the HTTP clients of runs with concurrent requests
Clients == { "s1", "s2" }

TenantIDs == { "", "t1", "t2", "t3", "tE" }

\* variant: a zero interval counts as enabled
IsEnabledNonNegative(st) == st >= 0

\* CollectorConfig.IsEnabled
IsEnabled(st) == st > 0

(* ------------------------- directory content -------------------------- *)
\* An optional (pointer) field is a set: {} when absent, {v} when present.

UserRec(id, upn, dn, ae, ut, ct) ==
    [id |-> id, userPrincipalName |-> upn, displayName |-> dn,
     accountEnabled |-> ae, userType |-> ut, creationType |-> ct]

DeviceRec(id, dn, os, ae, tt, reg) ==
    [id |-> id, displayName |-> dn, deviceCategory |-> {},
     operatingSystem |-> os, operatingSystemVersion |-> {},
     trustType |-> tt, enrollmentType |-> {}, accountEnabled |-> ae,
     managementType |-> {}, registrationDateTime |-> reg]

\* the pages the Graph API holds for a tenant's /users collection
UsersDirectory(tenant) ==
    CASE tenant = "t1" ->
           << << UserRec({"u1"}, {"u1@t1"}, {"User One"}, {TRUE}, {"Member"}, {}) >> >>
      [] tenant = "t2" ->
           << << UserRec({"u2"}, {"u2@t2"}, {"User Two"}, {}, {}, {}) >>,
              << UserRec({"u3"}, {"u3@t2"}, {"User Three"}, {FALSE}, {"Guest"}, {"Invitation"}) >>,
              << UserRec({"u4"}, {"u4@t2"}, {"User Four"}, {TRUE}, {"Member"}, {}) >> >>
      [] tenant = "t3" ->
           << << UserRec({"u6"}, {"u6@t3"}, {"User Six"}, {TRUE}, {"Member"}, {}) >>,
              << UserRec({"u7"}, {"u7@t3"}, {"User Seven"}, {FALSE}, {"Guest"}, {}) >> >>
      [] tenant = "tE" ->
           << << UserRec({"u5"}, {}, {"User Five"}, {TRUE}, {"Member"}, {}) >> >>
      [] OTHER -> << << >> >>

\* the pages the Graph API holds for a tenant's /devices collection
DevicesDirectory(tenant) ==
    CASE tenant = "t1" ->
           << << DeviceRec({"d1"}, {"Laptop"}, {"Windows"}, {TRUE}, {"AzureAd"},
                        {[year |-> 2024, month |-> 1, day |-> 2, hour |-> 3, minute |-> 4, second |-> 5]}) >> >>
      [] tenant = "t2" ->
           << << DeviceRec({"d2"}, {"Phone"}, {}, {}, {}, {}) >>,
              << DeviceRec({"d3"}, {"Tablet"}, {"iOS"}, {FALSE}, {}, {}) >>,
              << DeviceRec({"d4"}, {"Desk"}, {"Linux"}, {TRUE}, {"Workplace"}, {}) >> >>
      [] tenant = "t3" ->
           << << DeviceRec({"d5"}, {"Kiosk"}, {"Android"}, {TRUE}, {}, {}) >> >>
      [] tenant = "tE" ->
           << << DeviceRec({}, {"Ghost"}, {}, {TRUE}, {}, {}) >> >>
      [] OTHER -> << << >> >>

Directory(d, tenant) ==
    IF d = "users" THEN UsersDirectory(tenant) ELSE DevicesDirectory(tenant)

\* the five statistics of the general domain, in the order collect fetches them
StatNames ==
    << "user_count", "device_count", "application_count",
       "service_principal_count", "group_count" >>

\* the @odata.count the Graph API holds for a tenant's collection
DirectoryCount(tenant, k) ==
    CASE tenant = "t1" -> 2 * k + 1
      [] tenant = "t2" -> 2 * k
      [] OTHER -> 0

\* whether the tenant's directory client puts @odata.count into a collection
\* page that was requested without $count: a test double does, the Graph
\* service does not
CountsUnasked(tenant) == tenant = "t1"

(* ------------------------------- state -------------------------------- *)

VARIABLES
    scrapeTime,        \* config: domain -> interval
    cfgTenants,        \* config.Azure.Tenants
    envTenant,         \* AZURE_TENANT_ID
    mainPc,            \* position of main
    alive,             \* the process is running
    registered,        \* domains registered with the prometheus registry
    loopPc,            \* domain -> position of its background goroutine
    mu,                \* domain -> BaseCollector's sync.Mutex is held
    cycle,             \* domain -> collect invocations so far
    sleepLeft,         \* domain -> interval units left of time.Sleep
    tIdx,              \* domain -> index into GetTenants() of the pass
    acc,               \* domain -> the pass's local list (usersList/devicesList/stats)
    res,               \* domain -> last fetch result
    err,               \* domain -> last fetch error ("" is nil)
    fetched,           \* domain -> pages fetched for the tenant in this pass
    statIdx,           \* general: index of the sub-fetch
    usersList,         \* UsersCollector.usersList: tenant -> list
    devicesList,       \* DevicesCollector.devicesList: tenant -> list
    stats,             \* GeneralCollector.stats: tenant -> (metric -> count)
    snapW,             \* domain -> snapshot RWMutex is write-locked
    snapR,             \* domain -> scrapers holding the snapshot read lock
    graphClients,      \* factory -> (tenant key -> client)
    graphClientsLock,  \* factory -> caller holding the write lock, or ""
    created,           \* factory -> clients constructed so far
    gcPc,              \* caller -> position in GetGraphClient
    gcTenant,          \* caller -> tenantID argument
    gcKey,             \* caller -> tenantID after the environment fallback
    gcRet,             \* caller -> returned (client, error)
    scrapeErrors,      \* domain -> tenant -> counter
    scrapeDuration,    \* domain -> tenant -> number of observations
    lastScrapeTime,    \* domain -> tenant -> cycle of the last update (0: never)
    scPc,              \* scraper -> position in the /metrics request
    scTodo,            \* scraper -> registered collectors still to render
    scCur,             \* scraper -> collector being rendered ("" if none)
    lastResp,          \* scraper -> the last response it received
    exposition,        \* scraper -> domain -> samples gathered for its request
    usersTotal,        \* GaugeVec entraid_users_total: labels -> value
    usersInfo,         \* GaugeVec entraid_users_info: labels -> value
    devicesTotal,      \* GaugeVec entraid_devices_total: labels -> value
    devicesInfo,       \* GaugeVec entraid_devices_info: labels -> value
    statsMetric,       \* GaugeVec entraid_stats: labels -> value
    faults             \* failures still to inject

cfgVars == << scrapeTime, cfgTenants, envTenant >>
mainVars == << mainPc, alive, registered >>
loopVars == << loopPc, mu, cycle, sleepLeft >>
passVars == << tIdx, acc, res, err, fetched, statIdx >>
snapVars == << usersList, devicesList, stats >>
snapLockVars == << snapW, snapR >>
factoryVars == << graphClients, graphClientsLock, created >>
gcVars == << gcPc, gcTenant, gcKey, gcRet >>
metricVars == << scrapeErrors, scrapeDuration, lastScrapeTime >>
gaugeVars == << usersTotal, usersInfo, devicesTotal, devicesInfo, statsMetric >>
httpVars == << scPc, scTodo, scCur, lastResp, exposition, gaugeVars >>

vars == << cfgVars, mainVars, loopVars, passVars, snapVars, snapLockVars,
           factoryVars, gcVars, metricVars, httpVars, faults >>

(* ------------------------------ helpers ------------------------------- *)

EmptyMap == [x \in {} |-> 0]

\* m[k] = v on a Go map
MapPut(m, k, v) == [x \in DOMAIN m \cup {k} |-> IF x = k THEN v ELSE m[x]]

\* *p of a non-nil pointer
Deref(p) == CHOOSE v \in p : TRUE

NoClient == [factory |-> "", n |-> 0, tenant |-> ""]

NoReturn == [client |-> NoClient, err |-> ""]

NoResult == [page |-> 0, value |-> << >>, next |-> FALSE]

NoResponse == [path |-> "", status |-> 0, body |-> ""]

\* what one collector has sent to the registry's channel: nothing yet
NoSamples == [total |-> EmptyMap, info |-> EmptyMap, stats |-> EmptyMap]

\* the callers of the factory harness
HarnessCallers == { ToString(i) : i \in 1..NumCallers }

Callers == Domains \cup HarnessCallers

\* the BaseCollector a caller's GetGraphClient runs on
FactoryOf(c) == IF c \in Domains THEN c ELSE "users"

\* variant: without configured tenants the sentinel is returned whatever the
\* environment holds
GetTenantsSentinelOnly ==
    IF Len(cfgTenants) > 0 THEN cfgTenants ELSE << "" >>

\* BaseCollector.GetTenants
GetTenants ==
    IF Len(cfgTenants) > 0 THEN cfgTenants
    ELSE IF envTenant # "" THEN << envTenant >>
    ELSE << "" >>

\* variant: the range visits the tenants in the opposite order
CurTenantReversed(d) == GetTenants[Len(GetTenants) + 1 - tIdx[d]]

\* the tenant of the range's current iteration
CurTenant(d) == GetTenants[tIdx[d]]

\* one failure is injected
Inject == faults > 0 /\ faults' = faults - 1

(* ------------------------------- Init --------------------------------- *)

InitShared ==
    /\ alive = TRUE
    /\ registered = {}
    /\ loopPc = [d \in Domains |-> "absent"]
    /\ mu = [d \in Domains |-> FALSE]
    /\ cycle = [d \in Domains |-> 0]
    /\ sleepLeft = [d \in Domains |-> 0]
    /\ tIdx = [d \in Domains |-> 0]
    /\ acc = [d \in Domains |-> << >>]
    /\ res = [d \in Domains |-> NoResult]
    /\ err = [d \in Domains |-> ""]
    /\ fetched = [d \in Domains |-> 0]
    /\ statIdx = 0
    /\ usersList = EmptyMap
    /\ devicesList = EmptyMap
    /\ stats = EmptyMap
    /\ snapW = [d \in Domains |-> FALSE]
    /\ snapR = [d \in Domains |-> {}]
    /\ graphClients = [f \in Domains |-> EmptyMap]
    /\ graphClientsLock = [f \in Domains |-> ""]
    /\ created = [f \in Domains |-> 0]
    /\ gcPc = [c \in Callers |-> "idle"]
    /\ gcKey = [c \in Callers |-> ""]
    /\ gcRet = [c \in Callers |-> NoReturn]
    /\ scrapeErrors = [d \in Domains |-> [t \in TenantIDs |-> 0]]
    /\ scrapeDuration = [d \in Domains |-> [t \in TenantIDs |-> 0]]
    /\ lastScrapeTime = [d \in Domains |-> [t \in TenantIDs |-> 0]]
    /\ scPc = [s \in Clients |-> "idle"]
    /\ scTodo = [s \in Clients |-> {}]
    /\ scCur = [s \in Clients |-> ""]
    /\ lastResp = [s \in Clients |-> NoResponse]
    /\ exposition = [s \in Clients |-> [d \in Domains |-> NoSamples]]
    /\ usersTotal = EmptyMap
    /\ usersInfo = EmptyMap
    /\ devicesTotal = EmptyMap
    /\ devicesInfo = EmptyMap
    /\ statsMetric = EmptyMap

\* the process at the start of main, after the config file is loaded
Init ==
    /\ InitShared
    /\ faults = MaxFaults
    /\ scrapeTime \in ScrapeConfigs
    /\ \E dep \in Deployments : cfgTenants = dep.tenants /\ envTenant = dep.env
    /\ mainPc = "general"
    /\ gcTenant = [c \in Callers |-> ""]

(* ------------------------------- main --------------------------------- *)

\* the domain main sets up after d
NextSetup(d) ==
    CASE d = "general" -> "users"
      [] d = "users" -> "devices"
      [] OTHER -> "serve"

\* main: if cfg.Collector.<d>.IsEnabled() { New<d>Collector; MustRegister }
\* New<d>Collector ends with StartCacheInvalidator, which spawns the loop.
SetupCollector ==
    /\ alive
    /\ mainPc \in Domains
    /\ IF IsEnabled(scrapeTime[mainPc])
         THEN /\ loopPc' = [loopPc EXCEPT ![mainPc] = "collect"]
              /\ registered' = registered \cup {mainPc}
         ELSE UNCHANGED << loopPc, registered >>
    /\ mainPc' = NextSetup(mainPc)
    /\ UNCHANGED << httpVars, cfgVars, alive, mu, cycle, sleepLeft, passVars, snapVars,
                    snapLockVars, factoryVars, gcVars, metricVars, faults >>

(* -------------------------- GetGraphClient ---------------------------- *)

\* GetGraphClient returns r to caller c; the deferred Unlock has run
GcReturn(c, r) ==
    /\ gcRet' = [gcRet EXCEPT ![c] = r]
    /\ gcPc' = [gcPc EXCEPT ![c] = "ret"]

\* tenantID after "if tenantID == "" { tenantID = os.Getenv(AZURE_TENANT_ID) }"
EffectiveTenant(tenantID) == IF tenantID = "" THEN envTenant ELSE tenantID

\* fast path: RLock; lookup; RUnlock
GcFast(c) ==
    LET f == FactoryOf(c) IN
    /\ alive
    /\ gcPc[c] = "fast"
    /\ graphClientsLock[f] = ""
    /\ IF gcTenant[c] \in DOMAIN graphClients[f]
         THEN GcReturn(c, [client |-> graphClients[f][gcTenant[c]], err |-> ""])
         ELSE /\ gcPc' = [gcPc EXCEPT ![c] = "lock"]
              /\ UNCHANGED gcRet
    /\ UNCHANGED << httpVars, cfgVars, mainVars, loopVars, passVars, snapVars, snapLockVars,
                    factoryVars, gcTenant, gcKey, metricVars, faults >>

\* slow path: Lock; defer Unlock; double check; environment fallback
GcLock(c) ==
    LET f == FactoryOf(c) IN
    /\ alive
    /\ gcPc[c] = "lock"
    /\ graphClientsLock[f] = ""
    /\ IF gcTenant[c] \in DOMAIN graphClients[f]
         THEN /\ GcReturn(c, [client |-> graphClients[f][gcTenant[c]], err |-> ""])
              /\ UNCHANGED << graphClientsLock, gcKey >>
         ELSE /\ graphClientsLock' = [graphClientsLock EXCEPT ![f] = c]
              /\ gcKey' = [gcKey EXCEPT ![c] = EffectiveTenant(gcTenant[c])]
              /\ gcPc' = [gcPc EXCEPT ![c] = "cred"]
              /\ UNCHANGED gcRet
    /\ UNCHANGED << httpVars, cfgVars, mainVars, loopVars, passVars, snapVars, snapLockVars,
                    graphClients, created, gcTenant, metricVars, faults >>

\* variant: a failed creation leaves a nil client in the cache
GcFailCached(c, msg) ==
    /\ Inject
    /\ GcReturn(c, [client |-> NoClient, err |-> msg])
    /\ graphClientsLock' = [graphClientsLock EXCEPT ![FactoryOf(c)] = ""]
    /\ graphClients' = [graphClients EXCEPT ![FactoryOf(c)] = MapPut(@, gcKey[c], NoClient)]
    /\ UNCHANGED created

\* a creation step of the slow path fails: return (nil, error), nothing stored
GcFail(c, msg) ==
    /\ Inject
    /\ GcReturn(c, [client |-> NoClient, err |-> msg])
    /\ graphClientsLock' = [graphClientsLock EXCEPT ![FactoryOf(c)] = ""]
    /\ UNCHANGED << graphClients, created >>

GcStep(c, to) ==
    /\ gcPc' = [gcPc EXCEPT ![c] = to]
    /\ UNCHANGED << gcRet, factoryVars, faults >>

\* variant: the credential is handed to the auth provider without a token
\* having been requested
GcCredentialUnvalidated(c) ==
    /\ alive
    /\ gcPc[c] = "cred"
    /\ \/ GcStep(c, "auth")
       \/ GcFail(c, "failed to create credential")
    /\ UNCHANGED << httpVars, cfgVars, mainVars, loopVars, passVars, snapVars, snapLockVars,
                    gcTenant, gcKey, metricVars >>

\* azidentity.NewDefaultAzureCredential
GcCredential(c) ==
    /\ alive
    /\ gcPc[c] = "cred"
    /\ \/ GcStep(c, "token")
       \/ GcFail(c, "failed to create credential")
    /\ UNCHANGED << httpVars, cfgVars, mainVars, loopVars, passVars, snapVars, snapLockVars,
                    gcTenant, gcKey, metricVars >>

\* cred.GetToken, bounded by the 30 s context
GcToken(c) ==
    /\ alive
    /\ gcPc[c] = "token"
    /\ \/ GcStep(c, "auth")
       \/ GcFail(c, "failed to validate credential")
    /\ UNCHANGED << httpVars, cfgVars, mainVars, loopVars, passVars, snapVars, snapLockVars,
                    gcTenant, gcKey, metricVars >>

\* graphauth.NewAzureIdentityAuthenticationProvider
GcAuthProvider(c) ==
    /\ alive
    /\ gcPc[c] = "auth"
    /\ \/ GcStep(c, "adapter")
       \/ GcFail(c, "failed to create auth provider")
    /\ UNCHANGED << httpVars, cfgVars, mainVars, loopVars, passVars, snapVars, snapLockVars,
                    gcTenant, gcKey, metricVars >>

\* the key the new client is stored under: c.graphClients[tenantID] = client
StoreKey(c) == gcKey[c]

\* mgraph.NewGraphRequestAdapter, NewGraphServiceClient, store, return
GcAdapter(c) ==
    LET f == FactoryOf(c)
        client == [factory |-> f, n |-> created[f] + 1, tenant |-> gcKey[c]]
    IN
    /\ alive
    /\ gcPc[c] = "adapter"
    /\ \/ /\ created' = [created EXCEPT ![f] = created[f] + 1]
          /\ graphClients' = [graphClients EXCEPT ![f] = MapPut(graphClients[f], StoreKey(c), client)]
          /\ graphClientsLock' = [graphClientsLock EXCEPT ![f] = ""]
          /\ GcReturn(c, [client |-> client, err |-> ""])
          /\ UNCHANGED faults
       \/ GcFail(c, "failed to create adapter")
    /\ UNCHANGED << httpVars, cfgVars, mainVars, loopVars, passVars, snapVars, snapLockVars,
                    gcTenant, gcKey, metricVars >>

GetGraphClient(c) ==
    \/ GcFast(c)
    \/ GcLock(c)
    \/ GcCredential(c)
    \/ GcToken(c)
    \/ GcAuthProvider(c)
    \/ GcAdapter(c)

(* --------------------------- the Graph API ---------------------------- *)

\* what a request for page k of tenant's collection returns
Response(d, tenant, k) ==
    [page |-> k,
     value |-> Directory(d, tenant)[k],
     next |-> k < Len(Directory(d, tenant))]

\* the page the first request (reqConfig with Top and Select) names
FirstRequest == 1

\* the page a pagination request names: nextReqConfig is nil, so the request
\* is the collection URL again and the continuation link of r is not used
NextRequest(r) == FirstRequest

\* whether a count sub-fetch of the general domain asks for @odata.count:
\* the request configuration is nil
RequestsCount == FALSE

\* variant: a page carries @odata.count only when the request asked for it
OdataCountWhenRequested(tenant, k) ==
    IF RequestsCount THEN { DirectoryCount(tenant, k) } ELSE {}

\* GetOdataCount() of the page a count sub-fetch returns: {} when nil
OdataCount(tenant, k) ==
    IF RequestsCount \/ CountsUnasked(tenant) THEN { DirectoryCount(tenant, k) } ELSE {}

(* ------------------------- collect: one pass -------------------------- *)

InCollect == { "tenant", "client", "first", "firstChk", "page", "nextChk",
               "stat", "store", "write" }

ErrorsInc(d, t) ==
    scrapeErrors' = [scrapeErrors EXCEPT ![d][t] = scrapeErrors[d][t] + 1]

\* "continue": on to the next tenant of the range
Continue(d) ==
    /\ tIdx' = [tIdx EXCEPT ![d] = tIdx[d] + 1]
    /\ loopPc' = [loopPc EXCEPT ![d] = "tenant"]

\* variant: a tenant's failure ends the pass, as a "return" would
AbortPass(d) ==
    /\ tIdx' = [tIdx EXCEPT ![d] = Len(GetTenants) + 1]
    /\ loopPc' = [loopPc EXCEPT ![d] = "tenant"]

\* variant: the failure is counted and the iteration goes on to the cache
\* update, as after a "break"
StoreAfterError(d) ==
    /\ loopPc' = [loopPc EXCEPT ![d] = "store"]
    /\ UNCHANGED tIdx

\* a tenant's client acquisition or first page fetch failed: "continue"
OnTenantError(d) == Continue(d)

\* the locals of a pass go out of scope
ResetLocals(d) ==
    /\ tIdx' = [tIdx EXCEPT ![d] = 0]
    /\ acc' = [acc EXCEPT ![d] = << >>]
    /\ res' = [res EXCEPT ![d] = NoResult]
    /\ err' = [err EXCEPT ![d] = ""]
    /\ fetched' = [fetched EXCEPT ![d] = 0]
    /\ statIdx' = IF d = "general" THEN 0 ELSE statIdx

\* variant: collect without c.Lock()
CollectNoLock(d) ==
    /\ alive
    /\ loopPc[d] = "collect"
    /\ cycle' = [cycle EXCEPT ![d] = cycle[d] + 1]
    /\ tIdx' = [tIdx EXCEPT ![d] = 1]
    /\ loopPc' = [loopPc EXCEPT ![d] = "tenant"]
    /\ UNCHANGED << httpVars, cfgVars, mainVars, mu, sleepLeft, acc, res, err, fetched,
                    statIdx, snapVars, snapLockVars, factoryVars, gcVars,
                    metricVars, faults >>

\* variant: one mutex shared by the collectors of every domain
CollectLockGlobal(d) ==
    /\ alive
    /\ loopPc[d] = "collect"
    /\ \A e \in Domains : ~mu[e]
    /\ mu' = [mu EXCEPT ![d] = TRUE]
    /\ cycle' = [cycle EXCEPT ![d] = cycle[d] + 1]
    /\ tIdx' = [tIdx EXCEPT ![d] = 1]
    /\ loopPc' = [loopPc EXCEPT ![d] = "tenant"]
    /\ UNCHANGED << httpVars, cfgVars, mainVars, sleepLeft, acc, res, err, fetched,
                    statIdx, snapVars, snapLockVars, factoryVars, gcVars,
                    metricVars, faults >>

\* collect: c.Lock(); defer c.Unlock(); range c.GetTenants()
CollectLock(d) ==
    /\ alive
    /\ loopPc[d] = "collect"
    /\ ~mu[d]
    /\ mu' = [mu EXCEPT ![d] = TRUE]
    /\ cycle' = [cycle EXCEPT ![d] = cycle[d] + 1]
    /\ tIdx' = [tIdx EXCEPT ![d] = 1]
    /\ loopPc' = [loopPc EXCEPT ![d] = "tenant"]
    /\ UNCHANGED << httpVars, cfgVars, mainVars, sleepLeft, acc, res, err, fetched,
                    statIdx, snapVars, snapLockVars, factoryVars, gcVars,
                    metricVars, faults >>

\* loop body, first statement: client, err := c.GetGraphClient(tenantID)
CallGetGraphClient(d) ==
    /\ alive
    /\ loopPc[d] = "tenant"
    /\ tIdx[d] <= Len(GetTenants)
    /\ gcPc' = [gcPc EXCEPT ![d] = "fast"]
    /\ gcTenant' = [gcTenant EXCEPT ![d] = CurTenant(d)]
    /\ loopPc' = [loopPc EXCEPT ![d] = "client"]
    /\ UNCHANGED << httpVars, cfgVars, mainVars, mu, cycle, sleepLeft, passVars, snapVars,
                    snapLockVars, factoryVars, gcKey, gcRet, metricVars, faults >>

\* GetGraphClient returned: if err != nil { scrapeErrors.Inc(); continue }
ClientCheck(d) ==
    /\ alive
    /\ loopPc[d] = "client"
    /\ gcPc[d] = "ret"
    /\ gcPc' = [gcPc EXCEPT ![d] = "idle"]
    /\ IF gcRet[d].err # ""
         THEN /\ ErrorsInc(d, CurTenant(d))
              /\ OnTenantError(d)
              /\ UNCHANGED << acc, statIdx >>
         ELSE /\ loopPc' = [loopPc EXCEPT ![d] = IF d \in ListDomains THEN "first" ELSE "stat"]
              /\ acc' = [acc EXCEPT ![d] = IF d \in ListDomains THEN << >> ELSE EmptyMap]
              /\ statIdx' = IF d \in ListDomains THEN statIdx ELSE 1
              /\ UNCHANGED << tIdx, scrapeErrors >>
    /\ UNCHANGED << httpVars, cfgVars, mainVars, mu, cycle, sleepLeft, res, err, fetched,
                    snapVars, snapLockVars, factoryVars, gcTenant, gcKey, gcRet,
                    scrapeDuration, lastScrapeTime, faults >>

\* a page fetch returns (result, err)
Fetch(d, k) ==
    \/ /\ res' = [res EXCEPT ![d] = Response(d, gcRet[d].client.tenant, k)]
       /\ err' = [err EXCEPT ![d] = ""]
       /\ fetched[d] < MaxFetched
       /\ fetched' = [fetched EXCEPT ![d] = fetched[d] + 1]
       /\ UNCHANGED faults
    \/ /\ Inject
       /\ err' = [err EXCEPT ![d] = "fetch failed"]
       /\ UNCHANGED << res, fetched >>

\* result, err := client.Users().Get(ctx, &reqConfig)
FetchFirst(d) ==
    /\ alive
    /\ loopPc[d] = "first"
    /\ Fetch(d, FirstRequest)
    /\ loopPc' = [loopPc EXCEPT ![d] = "firstChk"]
    /\ UNCHANGED << httpVars, cfgVars, mainVars, mu, cycle, sleepLeft, tIdx, acc, statIdx,
                    snapVars, snapLockVars, factoryVars, gcVars, metricVars >>

\* if err != nil { scrapeErrors.Inc(); continue }; store the first page
FirstCheck(d) ==
    /\ alive
    /\ loopPc[d] = "firstChk"
    /\ IF err[d] # ""
         THEN /\ ErrorsInc(d, CurTenant(d))
              /\ OnTenantError(d)
              /\ UNCHANGED acc
         ELSE /\ acc' = [acc EXCEPT ![d] = acc[d] \o res[d].value]
              /\ loopPc' = [loopPc EXCEPT ![d] = "page"]
              /\ UNCHANGED << tIdx, scrapeErrors >>
    /\ UNCHANGED << httpVars, cfgVars, mainVars, mu, cycle, sleepLeft, res, err, fetched,
                    statIdx, snapVars, snapLockVars, factoryVars, gcVars,
                    scrapeDuration, lastScrapeTime, faults >>

\* for result.GetOdataNextLink() != nil && len(...) > 0 { result, err = Get(ctx, nil)
FetchNext(d) ==
    /\ alive
    /\ loopPc[d] = "page"
    /\ res[d].next
    /\ Fetch(d, NextRequest(res[d]))
    /\ loopPc' = [loopPc EXCEPT ![d] = "nextChk"]
    /\ UNCHANGED << httpVars, cfgVars, mainVars, mu, cycle, sleepLeft, tIdx, acc, statIdx,
                    snapVars, snapLockVars, factoryVars, gcVars, metricVars >>

\* the pagination loop ends: no continuation link on the last result
PageLoopExit(d) ==
    /\ alive
    /\ loopPc[d] = "page"
    /\ ~res[d].next
    /\ loopPc' = [loopPc EXCEPT ![d] = "store"]
    /\ UNCHANGED << httpVars, cfgVars, mainVars, mu, cycle, sleepLeft, passVars, snapVars,
                    snapLockVars, factoryVars, gcVars, metricVars, faults >>

\* where a failed pagination fetch leaves the pass: "break" out of the
\* pagination loop, on to the cache update
AfterNextError(d) ==
    /\ loopPc' = [loopPc EXCEPT ![d] = "store"]
    /\ UNCHANGED tIdx

\* if err != nil { scrapeErrors.Inc(); break }; append this page
NextCheck(d) ==
    /\ alive
    /\ loopPc[d] = "nextChk"
    /\ IF err[d] # ""
         THEN /\ ErrorsInc(d, CurTenant(d))
              /\ AfterNextError(d)
              /\ UNCHANGED acc
         ELSE /\ acc' = [acc EXCEPT ![d] = acc[d] \o res[d].value]
              /\ loopPc' = [loopPc EXCEPT ![d] = "page"]
              /\ UNCHANGED << tIdx, scrapeErrors >>
    /\ UNCHANGED << httpVars, cfgVars, mainVars, mu, cycle, sleepLeft, res, err, fetched,
                    statIdx, snapVars, snapLockVars, factoryVars, gcVars,
                    scrapeDuration, lastScrapeTime, faults >>

\* general: one of the five count sub-fetches, client.<X>().Get(ctx, nil):
\* on error scrapeErrors.Inc(), else if the page carries a count, stats[name] = count
StatFetch ==
    LET d == "general"
        k == statIdx
        tenant == gcRet[d].client.tenant
    IN
    /\ alive
    /\ loopPc[d] = "stat"
    /\ \/ /\ acc' = [acc EXCEPT ![d] =
                       IF OdataCount(tenant, k) # {}
                         THEN MapPut(acc[d], StatNames[k], Deref(OdataCount(tenant, k)))
                         ELSE acc[d]]
          /\ UNCHANGED << scrapeErrors, faults >>
       \/ /\ Inject
          /\ ErrorsInc(d, CurTenant(d))
          /\ UNCHANGED acc
    /\ statIdx' = k + 1
    /\ loopPc' = [loopPc EXCEPT ![d] = IF k = Len(StatNames) THEN "store" ELSE "stat"]
    /\ UNCHANGED << httpVars, cfgVars, mainVars, mu, cycle, sleepLeft, tIdx, res, err, fetched,
                    snapVars, snapLockVars, factoryVars, gcVars, scrapeDuration,
                    lastScrapeTime >>

\* c.usersLock.Lock()
StoreLock(d) ==
    /\ alive
    /\ loopPc[d] = "store"
    /\ ~snapW[d]
    /\ snapR[d] = {}
    /\ snapW' = [snapW EXCEPT ![d] = TRUE]
    /\ loopPc' = [loopPc EXCEPT ![d] = "write"]
    /\ UNCHANGED << httpVars, cfgVars, mainVars, mu, cycle, sleepLeft, passVars, snapVars,
                    snapR, factoryVars, gcVars, metricVars, faults >>

\* variant: the cache update assigns a new map that holds the tenant alone
StoreWriteWholeMap(d) ==
    LET t == CurTenant(d)
        fresh == [x \in {t} |-> acc[d]]
    IN
    /\ alive
    /\ loopPc[d] = "write"
    /\ usersList' = IF d = "users" THEN fresh ELSE usersList
    /\ devicesList' = IF d = "devices" THEN fresh ELSE devicesList
    /\ stats' = IF d = "general" THEN fresh ELSE stats
    /\ snapW' = [snapW EXCEPT ![d] = FALSE]
    /\ scrapeDuration' = [scrapeDuration EXCEPT ![d][t] = scrapeDuration[d][t] + 1]
    /\ lastScrapeTime' = [lastScrapeTime EXCEPT ![d][t] = cycle[d]]
    /\ Continue(d)
    /\ UNCHANGED << httpVars, cfgVars, mainVars, mu, cycle, sleepLeft, acc, res, err, fetched,
                    statIdx, snapR, factoryVars, gcVars, scrapeErrors, faults >>

\* variant: the cache update without c.usersLock.Unlock()
StoreWriteNoUnlock(d) ==
    LET t == CurTenant(d) IN
    /\ alive
    /\ loopPc[d] = "write"
    /\ usersList' = IF d = "users" THEN MapPut(usersList, t, acc[d]) ELSE usersList
    /\ devicesList' = IF d = "devices" THEN MapPut(devicesList, t, acc[d]) ELSE devicesList
    /\ stats' = IF d = "general" THEN MapPut(stats, t, acc[d]) ELSE stats
    /\ scrapeDuration' = [scrapeDuration EXCEPT ![d][t] = scrapeDuration[d][t] + 1]
    /\ lastScrapeTime' = [lastScrapeTime EXCEPT ![d][t] = cycle[d]]
    /\ Continue(d)
    /\ UNCHANGED << httpVars, cfgVars, mainVars, mu, cycle, sleepLeft, acc, res, err, fetched,
                    statIdx, snapR, snapW, factoryVars, gcVars, scrapeErrors, faults >>

\* c.usersList[tenantID] = usersList; Unlock; scrape metrics; next tenant
StoreWrite(d) ==
    LET t == CurTenant(d) IN
    /\ alive
    /\ loopPc[d] = "write"
    /\ usersList' = IF d = "users" THEN MapPut(usersList, t, acc[d]) ELSE usersList
    /\ devicesList' = IF d = "devices" THEN MapPut(devicesList, t, acc[d]) ELSE devicesList
    /\ stats' = IF d = "general" THEN MapPut(stats, t, acc[d]) ELSE stats
    /\ snapW' = [snapW EXCEPT ![d] = FALSE]
    /\ scrapeDuration' = [scrapeDuration EXCEPT ![d][t] = scrapeDuration[d][t] + 1]
    /\ lastScrapeTime' = [lastScrapeTime EXCEPT ![d][t] = cycle[d]]
    /\ Continue(d)
    /\ UNCHANGED << httpVars, cfgVars, mainVars, mu, cycle, sleepLeft, acc, res, err, fetched,
                    statIdx, snapR, factoryVars, gcVars, scrapeErrors, faults >>

(* ------------------------- the refresh loop --------------------------- *)

\* variant: the goroutine without the enclosing "for": it ends after the
\* first collect invocation
RunOnce(d) ==
    /\ loopPc' = [loopPc EXCEPT ![d] = "exited"]
    /\ UNCHANGED << sleepLeft, alive >>

\* variant: a ticker-like loop whose wait is the interval less the time
\* collect took
EnterSleepShortened(d) ==
    /\ loopPc' = [loopPc EXCEPT ![d] = "sleep"]
    /\ sleepLeft' = [sleepLeft EXCEPT ![d] = scrapeTime[d] - 1]
    /\ UNCHANGED alive

\* the loop after a collect invocation has ended: time.Sleep(c.scrapeTime)
EnterSleep(d) ==
    /\ loopPc' = [loopPc EXCEPT ![d] = "sleep"]
    /\ sleepLeft' = [sleepLeft EXCEPT ![d] = scrapeTime[d]]
    /\ UNCHANGED alive

\* collect returns after the last tenant; the deferred c.Unlock() runs
CollectReturn(d) ==
    /\ alive
    /\ loopPc[d] = "tenant"
    /\ tIdx[d] > Len(GetTenants)
    /\ mu' = [mu EXCEPT ![d] = FALSE]
    /\ ResetLocals(d)
    /\ EnterSleep(d)
    /\ UNCHANGED << httpVars, cfgVars, mainPc, registered, cycle, snapVars, snapLockVars,
                    factoryVars, gcVars, metricVars, faults >>

\* variant: c.Unlock() is not deferred, a panic leaves the domain mutex held
PanicCollectNoDefer(d) ==
    /\ alive
    /\ loopPc[d] \in InCollect \ {"write"}
    /\ Inject
    /\ graphClientsLock' = [graphClientsLock EXCEPT ![d] = IF @ = d THEN "" ELSE @]
    /\ gcPc' = [gcPc EXCEPT ![d] = "idle"]
    /\ ResetLocals(d)
    /\ loopPc' = [loopPc EXCEPT ![d] = "panic"]
    /\ UNCHANGED << cfgVars, mainVars, mu, cycle, sleepLeft, snapVars, snapLockVars,
                    graphClients, created, gcTenant, gcKey, gcRet, metricVars,
                    httpVars >>

\* collect panics: the deferred Unlocks run (the domain mutex, and the
\* client lock when the panic is raised inside GetGraphClient's slow path)
\* and the panic leaves collect
PanicCollect(d) ==
    /\ alive
    /\ loopPc[d] \in InCollect \ {"write"}
    /\ Inject
    /\ mu' = [mu EXCEPT ![d] = FALSE]
    /\ graphClientsLock' = [graphClientsLock EXCEPT ![d] = IF @ = d THEN "" ELSE @]
    /\ gcPc' = [gcPc EXCEPT ![d] = "idle"]
    /\ ResetLocals(d)
    /\ loopPc' = [loopPc EXCEPT ![d] = "panic"]
    /\ UNCHANGED << cfgVars, mainVars, cycle, sleepLeft, snapVars, snapLockVars,
                    graphClients, created, gcTenant, gcKey, gcRet, metricVars,
                    httpVars >>

\* variant: the loop without the per-cycle recover; the panic ends the process
UnrecoveredPanic(d) ==
    /\ alive' = FALSE
    /\ loopPc' = [loopPc EXCEPT ![d] = "exited"]
    /\ UNCHANGED sleepLeft

\* what the loop does with a panic that left collect: the deferred recover
\* of the per-cycle func logs it, the loop goes on to its sleep
OnCollectPanic(d) == EnterSleep(d)

\* the panic reaches the goroutine's per-cycle func
RecoverCollect(d) ==
    /\ alive
    /\ loopPc[d] = "panic"
    /\ OnCollectPanic(d)
    /\ UNCHANGED << cfgVars, mainPc, registered, mu, cycle, passVars, snapVars,
                    snapLockVars, factoryVars, gcVars, metricVars, httpVars, faults >>

\* one interval unit of the sleep passes
Tick(d) ==
    /\ alive
    /\ loopPc[d] = "sleep"
    /\ sleepLeft[d] > 0
    /\ sleepLeft' = [sleepLeft EXCEPT ![d] = sleepLeft[d] - 1]
    /\ UNCHANGED << httpVars, cfgVars, mainVars, loopPc, mu, cycle, passVars, snapVars,
                    snapLockVars, factoryVars, gcVars, metricVars, faults >>

\* time.Sleep returns; the for loop invokes collect again
Wake(d) ==
    /\ alive
    /\ loopPc[d] = "sleep"
    /\ sleepLeft[d] = 0
    /\ cycle[d] < MaxCycles
    /\ loopPc' = [loopPc EXCEPT ![d] = "collect"]
    /\ UNCHANGED << httpVars, cfgVars, mainVars, mu, cycle, sleepLeft, passVars, snapVars,
                    snapLockVars, factoryVars, gcVars, metricVars, faults >>

(* --------------------------- HTTP handlers ---------------------------- *)

\* the snapshot map a domain's Collect ranges over
Snapshot(d) ==
    CASE d = "users" -> usersList
      [] d = "devices" -> devicesList
      [] OTHER -> stats

\* the label dereferences without a nil check: *GetId(), *GetUserPrincipalName(),
\* *GetDisplayName() for a user; *GetId(), *GetDisplayName() for a device
NilDeref(d, e) ==
    CASE d = "users" -> e.id = {} \/ e.userPrincipalName = {} \/ e.displayName = {}
      [] d = "devices" -> e.id = {} \/ e.displayName = {}
      [] OTHER -> FALSE

\* Collect of domain d raises a runtime fault on the current snapshot
RenderFaults(d) ==
    /\ d \in ListDomains
    /\ \E t \in DOMAIN Snapshot(d) :
         \E i \in 1..Len(Snapshot(d)[t]) : NilDeref(d, Snapshot(d)[t][i])

\* the label of an optional string field: "unknown" when the pointer is nil
OrUnknown(p) == IF p = {} THEN "unknown" ELSE Deref(p)

\* variant: an absent accountEnabled counts as enabled
AccountEnabledUnlessFalse(p) == IF p # {} /\ ~Deref(p) THEN "false" ELSE "true"

\* accountEnabled := "false"; if p != nil && *p { accountEnabled = "true" }
AccountEnabledLabel(p) == IF p # {} /\ Deref(p) THEN "true" ELSE "false"

\* a two-digit field of a formatted time
Pad2(n) == IF n < 10 THEN "0" \o ToString(n) ELSE ToString(n)

\* time.Time.Format(time.RFC3339) of a UTC time
FormatRFC3339(t) ==
    ToString(t.year) \o "-" \o Pad2(t.month) \o "-" \o Pad2(t.day) \o "T"
      \o Pad2(t.hour) \o ":" \o Pad2(t.minute) \o ":" \o Pad2(t.second) \o "Z"

\* the label values of c.usersInfo.WithLabelValues(...) for one user
UserLabels(tenantID, user) ==
    [tenant_id |-> tenantID,
     user_id |-> Deref(user.id),
     user_principal_name |-> Deref(user.userPrincipalName),
     display_name |-> Deref(user.displayName),
     account_enabled |-> AccountEnabledLabel(user.accountEnabled),
     user_type |-> OrUnknown(user.userType),
     creation_type |-> OrUnknown(user.creationType)]

\* the label values of c.devicesInfo.WithLabelValues(...) for one device
DeviceLabels(tenantID, device) ==
    [tenant_id |-> tenantID,
     device_id |-> Deref(device.id),
     display_name |-> Deref(device.displayName),
     device_category |-> OrUnknown(device.deviceCategory),
     operating_system |-> OrUnknown(device.operatingSystem),
     operating_system_version |-> OrUnknown(device.operatingSystemVersion),
     trust_type |-> OrUnknown(device.trustType),
     enrollment_type |-> OrUnknown(device.enrollmentType),
     account_enabled |-> AccountEnabledLabel(device.accountEnabled),
     management_type |-> OrUnknown(device.managementType),
     ownership |-> "n/a",
     registration_datetime |->
       IF device.registrationDateTime = {} THEN "unknown"
       ELSE FormatRFC3339(Deref(device.registrationDateTime))]

InfoLabels(d, tenantID, e) ==
    IF d = "users" THEN UserLabels(tenantID, e) ELSE DeviceLabels(tenantID, e)

\* the GaugeVecs of a list domain
Total(d) == IF d = "users" THEN usersTotal ELSE devicesTotal

Info(d) == IF d = "users" THEN usersInfo ELSE devicesInfo

\* GaugeVec.WithLabelValues(l).Set(vals[l]) for every l of vals; other
\* children stay
GaugeSet(g, vals) ==
    [l \in DOMAIN g \cup DOMAIN vals |-> IF l \in DOMAIN vals THEN vals[l] ELSE g[l]]

\* index of the first entity of tenant t whose labels fault, 0 if none
FaultIndex(d, t) ==
    LET bad == { i \in 1..Len(Snapshot(d)[t]) : NilDeref(d, Snapshot(d)[t][i]) }
    IN IF bad = {} THEN 0 ELSE CHOOSE i \in bad : \A j \in bad : i <= j

\* the info label sets Collect has set after the first n entities of tenant t
InfoPrefix(d, t, n) == { InfoLabels(d, t, Snapshot(d)[t][i]) : i \in 1..n }

\* the totals after Collect's range has reached the tenants of V
TotalAfter(d, V) ==
    GaugeSet(Total(d), [l \in { [tenant_id |-> t] : t \in V } |->
                          Len(Snapshot(d)[l.tenant_id])])

\* the info gauge after Collect has set the label sets L to 1
InfoAfter(d, L) ==
    GaugeSet(Info(d), [l \in L |-> 1])

\* statsMetric after Collect has ranged over c.stats
StatsAfter ==
    LET L == UNION { { [tenant_id |-> t, metric |-> m] : m \in DOMAIN stats[t] } :
                     t \in DOMAIN stats }
    IN GaugeSet(statsMetric, [l \in L |-> stats[l.tenant_id][l.metric]])

\* Collect of d has run its range over the tenants of V and the first n
\* entities of each tenant of C: the gauges of d are set, the others stay
SetGauges(d, V, C, n) ==
    LET L == UNION ({ InfoPrefix(d, t, Len(Snapshot(d)[t])) : t \in V }
                      \cup { InfoPrefix(d, t, n) : t \in C })
    IN
    /\ usersTotal' = IF d = "users" THEN TotalAfter(d, V \cup C) ELSE usersTotal
    /\ usersInfo' = IF d = "users" THEN InfoAfter(d, L) ELSE usersInfo
    /\ devicesTotal' = IF d = "devices" THEN TotalAfter(d, V \cup C) ELSE devicesTotal
    /\ devicesInfo' = IF d = "devices" THEN InfoAfter(d, L) ELSE devicesInfo
    /\ statsMetric' = IF d = "general" THEN StatsAfter ELSE statsMetric

\* c.usersTotal.Collect(ch); c.usersInfo.Collect(ch): every child of the
\* collector's GaugeVecs is sent
Gathered(d) ==
    [total |-> CASE d = "users" -> usersTotal'
                 [] d = "devices" -> devicesTotal'
                 [] OTHER -> EmptyMap,
     info |-> CASE d = "users" -> usersInfo'
                [] d = "devices" -> devicesInfo'
                [] OTHER -> EmptyMap,
     stats |-> IF d = "general" THEN statsMetric' ELSE EmptyMap]

\* the goroutines the registry's Gather may run a collector's Collect on:
\* the one serving the request, or a worker goroutine of the registry
GatherDispatch == { "handler", "worker" }

\* variant: a scrape cuts the loops' sleep short to refresh the caches
ScrapeStartRefreshes(s) ==
    /\ alive
    /\ mainPc = "serve"
    /\ scPc[s] = "idle"
    /\ scPc' = [scPc EXCEPT ![s] = "gather"]
    /\ scTodo' = [scTodo EXCEPT ![s] = registered]
    /\ lastResp' = [lastResp EXCEPT ![s] = NoResponse]
    /\ exposition' = [exposition EXCEPT ![s] = [d \in Domains |-> NoSamples]]
    /\ sleepLeft' = [d \in Domains |-> 0]
    /\ UNCHANGED << cfgVars, mainVars, loopPc, mu, cycle, passVars, snapVars, snapLockVars,
                    factoryVars, gcVars, metricVars, scCur, gaugeVars, faults >>

\* GET /metrics arrives: recoveryHandler, handler.ServeHTTP, registry Gather
ScrapeStart(s) ==
    /\ alive
    /\ mainPc = "serve"
    /\ scPc[s] = "idle"
    /\ scPc' = [scPc EXCEPT ![s] = "gather"]
    /\ scTodo' = [scTodo EXCEPT ![s] = registered]
    /\ lastResp' = [lastResp EXCEPT ![s] = NoResponse]
    /\ exposition' = [exposition EXCEPT ![s] = [d \in Domains |-> NoSamples]]
    /\ UNCHANGED << cfgVars, mainVars, loopVars, passVars, snapVars, snapLockVars,
                    factoryVars, gcVars, metricVars, scCur, gaugeVars, faults >>

\* variant: Collect also takes the domain mutex
RenderLocksDomain(d) == ~snapW[d] /\ loopPc[d] # "store" /\ ~mu[d]

\* the pass of d is inside c.usersLock.Lock(): a sync.RWMutex with a Lock
\* call pending admits no new reader
WriterWaits(d) == loopPc[d] = "store"

\* the locks Collect of domain d needs before it reads the snapshot:
\* c.usersLock.RLock() only, which waits for a writer that holds the lock
\* or is waiting for it
RenderCanLock(d) == ~snapW[d] /\ ~WriterWaits(d)

\* Collect of d: BaseCollector.Collect; c.usersLock.RLock(); defer RUnlock
RenderLock(s, d) ==
    /\ alive
    /\ scPc[s] = "gather"
    /\ d \in scTodo[s]
    /\ RenderCanLock(d)
    /\ snapR' = [snapR EXCEPT ![d] = snapR[d] \cup {s}]
    /\ scCur' = [scCur EXCEPT ![s] = d]
    /\ scPc' = [scPc EXCEPT ![s] = "render"]
    /\ UNCHANGED << cfgVars, mainVars, loopVars, passVars, snapVars, snapW,
                    factoryVars, gcVars, metricVars, scTodo, lastResp, exposition,
                    gaugeVars, faults >>

\* Collect of d sets and sends its samples and returns; RUnlock
RenderEmit(s) ==
    LET d == scCur[s] IN
    /\ alive
    /\ scPc[s] = "render"
    /\ ~RenderFaults(d)
    /\ snapR' = [snapR EXCEPT ![d] = snapR[d] \ {s}]
    /\ scTodo' = [scTodo EXCEPT ![s] = scTodo[s] \ {d}]
    /\ scCur' = [scCur EXCEPT ![s] = ""]
    /\ scPc' = [scPc EXCEPT ![s] = "gather"]
    /\ SetGauges(d, DOMAIN Snapshot(d), {}, 0)
    /\ exposition' = [exposition EXCEPT ![s][d] = Gathered(d)]
    /\ UNCHANGED << cfgVars, mainVars, loopVars, passVars, snapVars, snapW,
                    factoryVars, gcVars, metricVars, lastResp, faults >>

\* Collect of d panics while it assembles samples; the deferred RUnlock runs.
\* On the request's goroutine recoveryHandler's deferred recover answers 500
\* "Internal server error"; on a goroutine of the registry nothing recovers.
RenderPanic(s) ==
    LET d == scCur[s] IN
    /\ alive
    /\ scPc[s] = "render"
    /\ RenderFaults(d)
    /\ snapR' = [snapR EXCEPT ![d] = snapR[d] \ {s}]
    /\ scCur' = [scCur EXCEPT ![s] = ""]
    /\ scTodo' = [scTodo EXCEPT ![s] = {}]
    /\ scPc' = [scPc EXCEPT ![s] = "idle"]
    /\ \E c \in { t \in DOMAIN Snapshot(d) : FaultIndex(d, t) > 0 } :
         \E V \in SUBSET { t \in DOMAIN Snapshot(d) : FaultIndex(d, t) = 0 } :
           SetGauges(d, V, {c}, FaultIndex(d, c) - 1)
    /\ exposition' = [exposition EXCEPT ![s] = [x \in Domains |-> NoSamples]]
    /\ \E g \in GatherDispatch :
         IF g = "handler"
           THEN /\ lastResp' = [lastResp EXCEPT ![s] =
                                [path |-> "/metrics", status |-> 500,
                                 body |-> "Internal server error"]]
                /\ UNCHANGED alive
           ELSE /\ alive' = FALSE
                /\ UNCHANGED lastResp
    /\ UNCHANGED << cfgVars, mainPc, registered, loopVars, passVars, snapVars, snapW,
                    factoryVars, gcVars, metricVars, faults >>

\* every registered collector has been rendered: the response is written
ScrapeDone(s) ==
    /\ alive
    /\ scPc[s] = "gather"
    /\ scTodo[s] = {}
    /\ lastResp' = [lastResp EXCEPT ![s] =
                      [path |-> "/metrics", status |-> 200, body |-> "metrics"]]
    /\ scPc' = [scPc EXCEPT ![s] = "idle"]
    /\ UNCHANGED << cfgVars, mainVars, loopVars, passVars, snapVars, snapLockVars,
                    factoryVars, gcVars, metricVars, scTodo, scCur, exposition,
                    gaugeVars, faults >>

\* variant: the handler waits for the collectors' mutexes
HealthWaitsForCollect == \A d \in Domains : ~mu[d]

\* what the /health handler needs to run: no lock, no collector state
HealthCanRun == TRUE

\* what the /health handler writes
HealthResponse == [path |-> "/health", status |-> 200, body |-> "OK"]

\* GET /health: w.WriteHeader(http.StatusOK); w.Write([]byte("OK"))
Health(s) ==
    /\ alive
    /\ mainPc = "serve"
    /\ scPc[s] = "idle"
    /\ HealthCanRun
    /\ lastResp' = [lastResp EXCEPT ![s] = HealthResponse]
    /\ UNCHANGED << cfgVars, mainVars, loopVars, passVars, snapVars, snapLockVars,
                    factoryVars, gcVars, metricVars, scPc, scTodo, scCur, exposition,
                    gaugeVars, faults >>

(* --------------------------- specifications --------------------------- *)

Loop(d) ==
    \/ CollectLock(d)
    \/ CallGetGraphClient(d)
    \/ GetGraphClient(d)
    \/ ClientCheck(d)
    \/ FetchFirst(d)
    \/ FirstCheck(d)
    \/ FetchNext(d)
    \/ PageLoopExit(d)
    \/ NextCheck(d)
    \/ StoreLock(d)
    \/ StoreWrite(d)
    \/ CollectReturn(d)
    \/ PanicCollect(d)
    \/ RecoverCollect(d)
    \/ Tick(d)
    \/ Wake(d)

Scrape(s) ==
    \/ ScrapeStart(s)
    \/ \E d \in Domains : RenderLock(s, d)
    \/ RenderEmit(s)
    \/ RenderPanic(s)
    \/ ScrapeDone(s)

Next ==
    \/ SetupCollector
    \/ \E d \in Domains : Loop(d)
    \/ StatFetch
    \/ \E s \in Scrapers : Scrape(s)
    \/ \E s \in Scrapers : Health(s)

\* the exporter process
Spec == Init /\ [][Next]_vars

\* N goroutines call GetGraphClient(T) on one BaseCollector
InitFactory ==
    /\ InitShared
    /\ faults = MaxFaults
    /\ scrapeTime = [general |-> 0, users |-> 0, devices |-> 0]
    /\ cfgTenants = << >>
    /\ envTenant \in { "", "tE" }
    /\ mainPc = "factory"
    /\ \E T \in TenantIDs : gcTenant = [c \in Callers |-> T]

\* a caller enters GetGraphClient
FactoryCall(c) ==
    /\ gcPc[c] = "idle"
    /\ gcPc' = [gcPc EXCEPT ![c] = "fast"]
    /\ UNCHANGED << cfgVars, mainVars, loopVars, passVars, snapVars, snapLockVars,
                    factoryVars, gcTenant, gcKey, gcRet, metricVars, httpVars, faults >>

NextFactory ==
    \E c \in HarnessCallers : FactoryCall(c) \/ GetGraphClient(c)

SpecFactory == InitFactory /\ [][NextFactory]_vars

\* the exporter with the users and the devices collector enabled for the
\* same tenants, before the first request
InitDomains ==
    /\ InitShared
    /\ faults = MaxFaults
    /\ scrapeTime = [general |-> 0, users |-> 1, devices |-> 1]
    /\ cfgTenants = << "t2", "t1" >>
    /\ envTenant = ""
    /\ mainPc = "general"
    /\ gcTenant = [c \in Callers |-> ""]

NextDomains ==
    \/ SetupCollector
    \/ \E d \in ListDomains : Loop(d)

SpecDomains == InitDomains /\ [][NextDomains]_vars

\* the exporter with the users and the devices collector enabled for one
\* tenant whose users span two pages and whose devices fit one, in runs
\* with at most one failure
InitIsolation ==
    /\ InitShared
    /\ faults = 1
    /\ scrapeTime = [general |-> 0, users |-> 1, devices |-> 1]
    /\ cfgTenants = << "t3" >>
    /\ envTenant = ""
    /\ mainPc = "general"
    /\ gcTenant = [c \in Callers |-> ""]

\* the loop of a domain in runs where collect raises no panic
Pass(d) ==
    \/ CollectLock(d)
    \/ CallGetGraphClient(d)
    \/ GetGraphClient(d)
    \/ ClientCheck(d)
    \/ FetchFirst(d)
    \/ FirstCheck(d)
    \/ FetchNext(d)
    \/ PageLoopExit(d)
    \/ NextCheck(d)
    \/ StoreLock(d)
    \/ StoreWrite(d)
    \/ CollectReturn(d)
    \/ Tick(d)
    \/ Wake(d)

\* a scrape in runs where no render faults
ScrapeOK(s) ==
    \/ ScrapeStart(s)
    \/ \E d \in Domains : RenderLock(s, d)
    \/ RenderEmit(s)
    \/ ScrapeDone(s)

NextIsolation ==
    \/ SetupCollector
    \/ \E d \in ListDomains : Pass(d)
    \/ \E s \in Scrapers : ScrapeOK(s)

SpecIsolation == InitIsolation /\ [][NextIsolation]_vars

\* the steps the loop of domain d can take without a failure being injected
LoopStep(d) ==
    \/ CollectLock(d) \/ CallGetGraphClient(d) \/ GetGraphClient(d) \/ ClientCheck(d)
    \/ FetchFirst(d) \/ FirstCheck(d) \/ FetchNext(d) \/ PageLoopExit(d) \/ NextCheck(d)
    \/ (d = "general" /\ StatFetch)
    \/ StoreLock(d) \/ StoreWrite(d) \/ CollectReturn(d) \/ RecoverCollect(d)
    \/ Tick(d) \/ Wake(d)

\* the exporter process on a runtime that schedules every goroutine that
\* can run: main gets through its setup, and a loop that can take a step
\* that does not depend on an injected failure takes one
SpecLive ==
    /\ Init
    /\ [][Next]_vars
    /\ WF_vars(SetupCollector)
    /\ \A d \in Domains : WF_vars(LoopStep(d))

\* the exporter with the users collector alone, for a tenant of two pages
\* and a tenant with a user that lacks a label field, in runs with at most
\* one failure
InitLocks ==
    /\ InitShared
    /\ faults = 1
    /\ scrapeTime = [general |-> 0, users |-> 1, devices |-> 0]
    /\ cfgTenants = << "t3", "tE" >>
    /\ envTenant = ""
    /\ mainPc = "general"
    /\ gcTenant = [c \in Callers |-> ""]

\* a render in progress comes to its end
RenderEnds(s) == RenderEmit(s) \/ RenderPanic(s)

NextLocks ==
    \/ SetupCollector
    \/ Loop("users")
    \/ \E s \in Clients : Scrape(s)

\* one refresh loop and the requests of several clients on one collector,
\* on a runtime that schedules every goroutine that can run
SpecLocks ==
    /\ InitLocks
    /\ [][NextLocks]_vars
    /\ WF_vars(LoopStep("users"))
    /\ \A s \in Clients : WF_vars(RenderEnds(s))

(* ------------------------------ claims -------------------------------- *)

RECURSIVE Flatten(_)
Flatten(pages) == IF pages = << >> THEN << >> ELSE Head(pages) \o Flatten(Tail(pages))

\* every page the directory holds for the tenant a snapshot key stands for
FullList(d, t) == Flatten(Directory(d, EffectiveTenant(t)))

\* a failure of tenant CurTenant(d) has been returned to the pass and is
\* about to be handled
TenantFailed(d) ==
    \/ loopPc[d] = "client" /\ gcPc[d] = "ret" /\ gcRet[d].err # ""
    \/ loopPc[d] \in {"firstChk", "nextChk"} /\ err[d] # ""

\* the pass holds the domain mutex and is inside an external call
BlockedInCall(d) ==
    \/ loopPc[d] = "client" /\ gcPc[d] \in {"cred", "token", "auth", "adapter"}
    \/ loopPc[d] \in {"first", "page", "stat"}

\* C1: in the users and devices domains every cache entry a render can read
\* is the full page set of one error-free pass for its tenant, never the
\* partial list of a pass whose pagination a fetch error aborted.
C1_SnapshotIsCompletePass ==
    \A d \in ListDomains :
      \A t \in DOMAIN Snapshot(d) : Snapshot(d)[t] = FullList(d, t)

\* C2: when the first page of a tenant was fetched and a later page fetch
\* failed, the pass leaves the tenant's cache entry as it was.
C2_AbortedPaginationKeepsEntry ==
    [][\A d \in ListDomains :
         (loopPc[d] \in {"store", "write"} /\ err[d] # "")
           => Snapshot(d)' = Snapshot(d)]_vars

\* C3: N concurrent GetGraphClient(T) calls on one factory, none of which
\* fails, construct the client once and all return that instance.
C3_OneClientForConcurrentCallers ==
    (faults = MaxFaults /\ \A c \in HarnessCallers : gcPc[c] = "ret")
      => /\ created["users"] = 1
         /\ \A c1, c2 \in HarnessCallers : gcRet[c1].client = gcRet[c2].client

\* C4: a panic raised by collect does not end the loop: it is recovered in
\* the cycle, the loop sleeps the whole configured interval with the domain
\* mutex free, and collect is invoked again only when that sleep is over.
C4_PanicKeepsLoop ==
    /\ [](\A d \in Domains :
            /\ (alive /\ loopPc[d] = "panic") => ENABLED RecoverCollect(d)
            /\ (alive /\ loopPc[d] = "sleep" /\ cycle[d] < MaxCycles)
                 => ENABLED (Tick(d) \/ Wake(d)))
    /\ [][\A d \in Domains :
            /\ (loopPc[d] = "panic" /\ loopPc'[d] # "panic")
                 => /\ alive'
                    /\ loopPc'[d] = "sleep"
                    /\ sleepLeft'[d] = scrapeTime[d]
                    /\ ~mu'[d]
            /\ (loopPc[d] = "sleep" /\ loopPc'[d] # "sleep")
                 => sleepLeft[d] = 0 /\ loopPc'[d] = "collect"
            /\ (loopPc[d] # "collect" /\ loopPc'[d] = "collect")
                 => cycle[d] = 0 \/ loopPc[d] = "sleep"]_vars

\* C4 witness: the only failure so far was a panic in cycle 1, and cycle 2
\* is running
C4_Witness ==
    \E d \in Domains :
      /\ cycle[d] = 2
      /\ loopPc[d] = "tenant"
      /\ faults = MaxFaults - 1
      /\ \A t \in TenantIDs : scrapeErrors[d][t] = 0

\* C5: a domain whose interval is <= 0 is never constructed: it has no
\* loop, collect never runs for it, and it is not registered or rendered.
C5_DisabledDomainAbsent ==
    \A d \in Domains :
      scrapeTime[d] <= 0 =>
        /\ loopPc[d] = "absent"
        /\ cycle[d] = 0
        /\ ~mu[d]
        /\ d \notin registered
        /\ \A s \in Scrapers : d \notin scTodo[s] /\ scCur[s] # d

\* C5 witness: the process serves, one domain has run all its cycles and was
\* scraped, a domain with interval 0 and one with a negative interval exist
C5_Witness ==
    /\ mainPc = "serve"
    /\ \E d \in Domains : scrapeTime[d] = 0 /\ loopPc[d] = "absent"
    /\ \E d \in Domains : scrapeTime[d] < 0 /\ loopPc[d] = "absent"
    /\ \E d \in Domains : cycle[d] = MaxCycles
    /\ \E s \in Scrapers : lastResp[s].path = "/metrics" /\ lastResp[s].status = 200

\* C6: a client or fetch failure of tenant ti increments ti's error counter
\* and keeps the pass going: the pass stays in collect at ti or moves to
\* t(i+1), and it returns only from the loop head after the last tenant.
C6_FailureIsolated ==
    [][\A d \in Domains :
         /\ (TenantFailed(d) /\ loopPc'[d] \notin {loopPc[d], "panic"})
              => /\ scrapeErrors'[d][CurTenant(d)] = scrapeErrors[d][CurTenant(d)] + 1
                 /\ mu'[d]
                 /\ loopPc'[d] \in {"tenant", "store"}
                 /\ tIdx'[d] \in {tIdx[d], tIdx[d] + 1}
         /\ (loopPc[d] = "stat" /\ faults' < faults /\ loopPc'[d] # "panic")
              => /\ scrapeErrors'[d][CurTenant(d)] = scrapeErrors[d][CurTenant(d)] + 1
                 /\ loopPc'[d] \in {"stat", "store"}
                 /\ tIdx'[d] = tIdx[d]
         /\ (loopPc[d] \in InCollect /\ loopPc'[d] = "sleep")
              => loopPc[d] = "tenant" /\ tIdx[d] = Len(GetTenants) + 1
         /\ (loopPc[d] = "tenant" /\ loopPc'[d] = "client")
              => gcTenant'[d] = GetTenants[tIdx[d]] /\ gcPc'[d] = "fast"]_vars

\* C6 witness: in the first cycle the first tenant failed and the second
\* tenant's client acquisition is under way
C6_Witness ==
    \E d \in Domains :
      /\ Len(GetTenants) = 2
      /\ cycle[d] = 1
      /\ tIdx[d] = 2
      /\ loopPc[d] = "client"
      /\ scrapeErrors[d][GetTenants[1]] = 1

\* C7: a render takes only the snapshot read lock, so while a pass holds the
\* domain mutex inside a client creation, token validation or fetch, a
\* render can take the read lock, and a render that holds it can finish.
C7_RenderNotBlockedByCollect ==
    \A s \in Scrapers : \A d \in Domains :
      /\ (alive /\ scPc[s] = "gather" /\ d \in scTodo[s] /\ mu[d] /\ BlockedInCall(d))
           => ENABLED RenderLock(s, d)
      /\ (alive /\ scPc[s] = "render" /\ scCur[s] = d)
           => ENABLED (RenderEmit(s) \/ RenderPanic(s))

\* C7 witness: a render holds the read lock while the pass of its domain is
\* inside a page fetch with the domain mutex held
C7_Witness ==
    \E s \in Scrapers : \E d \in Domains :
      /\ scPc[s] = "render"
      /\ scCur[s] = d
      /\ mu[d]
      /\ loopPc[d] = "first"

\* C8: a fault raised while a render assembles samples is answered with 500
\* "Internal server error", the process keeps running and the read lock is
\* released.
C8_RenderFaultAnswered500 ==
    [][\A s \in Scrapers :
         (scPc[s] = "render" /\ RenderFaults(scCur[s]) /\ scPc'[s] # "render")
           => /\ alive'
              /\ lastResp'[s] = [path |-> "/metrics", status |-> 500,
                                 body |-> "Internal server error"]
              /\ s \notin snapR'[scCur[s]]]_vars

\* C9: /health answers 200 "OK" in every state of the running server, also
\* while a collect pass holds its domain mutex: the handler can always run.
C9_HealthAlwaysOK ==
    \A s \in Scrapers :
      /\ lastResp[s].path = "/health"
           => lastResp[s].status = 200 /\ lastResp[s].body = "OK"
      /\ (alive /\ mainPc = "serve" /\ scPc[s] = "idle") => ENABLED Health(s)

\* C9 witness: /health was answered and a pass is inside a page fetch with
\* the domain mutex held
C9_Witness ==
    \E s \in Scrapers : \E d \in Domains :
      /\ lastResp[s] = HealthResponse
      /\ mu[d]
      /\ loopPc[d] \in {"first", "stat"}

\* C10: a failed GetGraphClient returns an error and no client, with the
\* cache unchanged and the client lock released; the fast path never returns
\* an error, a miss always goes on to a new creation attempt, and every pass
\* calls GetGraphClient for each tenant it reaches.
C10_FailedClientNotCached ==
    [][/\ \A c \in Callers :
            /\ (gcPc[c] # "ret" /\ gcPc'[c] = "ret" /\ gcRet'[c].err # "")
                 => /\ graphClients' = graphClients
                    /\ gcRet'[c].client = NoClient
                    /\ graphClientsLock'[FactoryOf(c)] = ""
            /\ (gcPc[c] \in {"fast", "lock"} /\ gcPc'[c] = "ret")
                 => /\ gcRet'[c].err = ""
                    /\ gcRet'[c].client # NoClient
            /\ (gcPc[c] \in {"fast", "lock"} /\ gcPc'[c] \notin {gcPc[c], "idle"}
                  /\ gcTenant[c] \notin DOMAIN graphClients[FactoryOf(c)])
                 => gcPc'[c] = IF gcPc[c] = "fast" THEN "lock" ELSE "cred"
       /\ \A d \in Domains :
            (loopPc[d] = "tenant" /\ loopPc'[d] \notin {"tenant", "panic", "sleep"})
              => loopPc'[d] = "client" /\ gcPc'[d] = "fast"]_vars

\* C10 witness: in the general domain the only failure so far was the client
\* creation of cycle 1 (error counted, nothing stored), and in cycle 2
\* GetGraphClient has returned a client
C10_Witness ==
    LET d == "general" IN
    /\ Len(GetTenants) = 1
    /\ cycle[d] = 2
    /\ faults = MaxFaults - 1
    /\ scrapeErrors[d][GetTenants[1]] = 1
    /\ lastScrapeTime[d][GetTenants[1]] = 0
    /\ loopPc[d] = "client"
    /\ gcPc[d] = "ret"
    /\ gcRet[d].err = ""
    /\ gcRet[d].client.n = 1

\* C11: once a GetGraphClient(T) call has succeeded on a factory, a later
\* call for T returns that client from the cache (fast path or double check)
\* without entering credential construction, token validation or client
\* construction; a returned client is the entry under the key T, and no
\* entry is ever removed or replaced.
C11_CachedClientReused ==
    [][\A c \in HarnessCallers :
         LET f == FactoryOf(c) IN
         /\ (gcPc[c] # "ret" /\ gcPc'[c] = "ret" /\ gcRet'[c].err = "")
              => /\ gcTenant[c] \in DOMAIN graphClients'[f]
                 /\ graphClients'[f][gcTenant[c]] = gcRet'[c].client
         /\ \A c2 \in HarnessCallers \ {c} :
              (/\ gcPc[c2] = "ret" /\ gcRet[c2].err = ""
               /\ gcPc[c] \in {"fast", "lock"} /\ gcPc'[c] # gcPc[c])
                => /\ gcPc'[c] = "ret"
                   /\ gcRet'[c] = [client |-> gcRet[c2].client, err |-> ""]
                   /\ created' = created
         /\ \A k \in DOMAIN graphClients[f] :
              k \in DOMAIN graphClients'[f] /\ graphClients'[f][k] = graphClients[f][k]]_vars

\* C12: across the process at most one client exists for a tenant: two
\* domains that hold a cached client for the same tenant hold the same one.
C12_OneClientPerTenantAcrossDomains ==
    \A f1, f2 \in Domains :
      \A t \in DOMAIN graphClients[f1] \cap DOMAIN graphClients[f2] :
        graphClients[f1][t] = graphClients[f2][t]

\* C13: whenever the iteration of a tenant ends in a collect cycle, by
\* success or by any failure, the tenant's duration observation and its
\* last-scrape-time of that cycle are recorded.
C13_DurationRecordedWhateverOutcome ==
    [][\A d \in Domains :
         (loopPc[d] \in InCollect /\ loopPc'[d] = "tenant" /\ tIdx'[d] = tIdx[d] + 1)
           => /\ lastScrapeTime'[d][CurTenant(d)] = cycle[d]
              /\ scrapeDuration'[d][CurTenant(d)] = scrapeDuration[d][CurTenant(d)] + 1]_vars

\* C14: no cached user or device record makes a render fault, whichever of
\* its fields are absent: a render in progress can always emit its samples.
C14_RenderNeverFaults ==
    \A s \in Scrapers : scPc[s] = "render" => ~RenderFaults(scCur[s])

\* the label the spec documents for an optional string field
DocumentedLabel(p) == IF p = {} THEN "unknown" ELSE CHOOSE v \in p : TRUE

\* the label the spec documents for accountEnabled
DocumentedFlag(p) == IF p = {TRUE} THEN "true" ELSE "false"

C16_StatsExposedAfterOneCycle ==
    [][\A s \in Scrapers : \A T \in TenantIDs :
         (/\ scPc[s] = "render" /\ scCur[s] = "general" /\ scPc'[s] = "gather"
          /\ faults = MaxFaults
          /\ lastScrapeTime["general"][T] >= 1
          /\ CountsUnasked(EffectiveTenant(T)))
           => LET g == exposition'[s]["general"].stats
                  lu == [tenant_id |-> T, metric |-> "user_count"]
                  ld == [tenant_id |-> T, metric |-> "device_count"]
              IN /\ lu \in DOMAIN g /\ g[lu] = DirectoryCount(EffectiveTenant(T), 1)
                 /\ ld \in DOMAIN g /\ g[ld] = DirectoryCount(EffectiveTenant(T), 2)]_vars

\* C16 witness: a scrape was answered that exposes user_count 3 and
\* device_count 5 for tenant "t1"
C16_Witness ==
    \E s \in Scrapers :
      LET g == exposition[s]["general"].stats
          lu == [tenant_id |-> "t1", metric |-> "user_count"]
          ld == [tenant_id |-> "t1", metric |-> "device_count"]
      IN /\ lastResp[s].path = "/metrics" /\ lastResp[s].status = 200
         /\ faults = MaxFaults
         /\ lu \in DOMAIN g /\ g[lu] = 3
         /\ ld \in DOMAIN g /\ g[ld] = 5

\* the value a scrape made now would expose for statistic m of tenant T:
\* {} when none
Visible(T, m) ==
    LET l == [tenant_id |-> T, metric |-> m] IN
    IF T \in DOMAIN stats /\ m \in DOMAIN stats[T] THEN { stats[T][m] }
    ELSE IF l \in DOMAIN statsMetric THEN { statsMetric[l] }
    ELSE {}

\* C17: when the general pass stores tenant T's statistics, each statistic
\* whose sub-fetch delivered a count takes this cycle's value, and each
\* statistic whose sub-fetch failed keeps the value collected before.
C17_FailedStatKeepsStaleValue ==
    [][\A T \in TenantIDs :
         (/\ loopPc["general"] = "write" /\ loopPc'["general"] = "tenant"
          /\ CurTenant("general") = T)
           => \A k \in 1..Len(StatNames) :
                IF StatNames[k] \in DOMAIN acc["general"]
                  THEN Visible(T, StatNames[k])' = { acc["general"][StatNames[k]] }
                  ELSE Visible(T, StatNames[k])' = Visible(T, StatNames[k])]_vars

HttpStep == httpVars' # httpVars

\* C19: a step of a scrape creates no client, starts no fetch and leaves the
\* snapshot caches, the client caches, the passes and the loops as they
\* are; a domain's snapshot changes only in the cache write of its own pass.
C19_ScrapeIsReadOnly ==
    [][/\ HttpStep => UNCHANGED << snapVars, factoryVars, gcVars, passVars, loopVars,
                                   metricVars, faults >>
       /\ \A d \in Domains :
            Snapshot(d)' # Snapshot(d)
              => /\ loopPc[d] = "write" /\ loopPc'[d] = "tenant"
                 /\ \A o \in Domains \ {d} : Snapshot(o)' = Snapshot(o)]_vars

\* C19 witness: a scrape was answered from a non-empty snapshot while the
\* second pass of the domain is waiting for its client
C19_Witness ==
    \E s \in Scrapers : \E d \in ListDomains :
      /\ lastResp[s].path = "/metrics" /\ lastResp[s].status = 200
      /\ DOMAIN exposition[s][d].info # {}
      /\ DOMAIN Snapshot(d) # {}
      /\ cycle[d] = 2 /\ loopPc[d] = "client"

\* C20: the domain mutex is free whenever the loop is outside collect (about
\* to invoke it, unwinding a panic, or sleeping), so the next invocation can
\* take it.
C20_LockNeverLeaked ==
    \A d \in Domains :
      /\ loopPc[d] \notin InCollect => ~mu[d]
      /\ (alive /\ loopPc[d] = "collect") => ENABLED CollectLock(d)

\* C20 witness: an invocation was ended by a panic, nothing else failed, and
\* the loop sleeps with the mutex free
C20_Witness ==
    \E d \in Domains :
      /\ loopPc[d] = "sleep" /\ cycle[d] = 1 /\ ~mu[d]
      /\ faults = MaxFaults - 1
      /\ \A t \in TenantIDs : scrapeErrors[d][t] = 0 /\ lastScrapeTime[d][t] = 0

\* C21: in the users and devices domains each pagination fetch that
\* succeeds returns the page named by the continuation token of the previous
\* result, and a pass whose fetches all succeeded stores for the tenant the
\* concatenation of its pages, each entity once.
C21_PaginationFollowsContinuation ==
    [][\A d \in ListDomains :
         /\ (loopPc[d] = "page" /\ loopPc'[d] = "nextChk" /\ err'[d] = "")
              => res'[d].page = res[d].page + 1
         /\ (loopPc[d] = "write" /\ loopPc'[d] = "tenant" /\ err[d] = "")
              => \A t \in TenantIDs :
                   CurTenant(d) = t => Snapshot(d)'[t] = FullList(d, t)]_vars

\* the loop of d waits for something outside it: a scrape that holds the
\* snapshot's read lock, or the bound of the model on fetches and cycles
LoopWaits(d) ==
    \/ loopPc[d] = "store" /\ snapR[d] # {}
    \/ loopPc[d] \in {"first", "page"} /\ fetched[d] = MaxFetched
    \/ loopPc[d] = "sleep" /\ sleepLeft[d] = 0 /\ cycle[d] = MaxCycles

\* C22: every enabled domain has one refresh loop, started by the
\* collector's constructor and by nothing else; once started the loop is
\* never absent and never over, whatever failed, and while the process
\* runs it always has a next step: it has no terminal state.
C22_OneLoopForever ==
    /\ [](\A d \in Domains :
            /\ (loopPc[d] # "absent")
                 => /\ IsEnabled(scrapeTime[d])
                    /\ d \in registered
                    /\ loopPc[d] \in InCollect \cup {"collect", "panic", "sleep"}
            /\ (IsEnabled(scrapeTime[d]) /\ mainPc \notin {"general", d}
                  /\ (d = "devices" => mainPc = "serve"))
                 => loopPc[d] # "absent"
            /\ (alive /\ loopPc[d] # "absent" /\ ~LoopWaits(d))
                 => ENABLED LoopStep(d))
    /\ [][\A d \in Domains :
            /\ (loopPc[d] = "absent" /\ loopPc'[d] # "absent")
                 => mainPc = d /\ mainPc' # d /\ loopPc'[d] = "collect"
            /\ (loopPc[d] # "absent") => mainPc' # d]_vars

\* C22 witness: a loop that met every failure the model injects is asleep
\* after its last cycle
C22_Witness ==
    \E d \in Domains :
      /\ alive
      /\ faults = 0
      /\ cycle[d] = MaxCycles
      /\ loopPc[d] = "sleep"
      /\ \E t \in TenantIDs : scrapeErrors[d][t] > 0

\* the locks of domain d: the collector's mutex, its snapshot lock and the
\* lock of its client cache
LocksOf(d) == << mu[d], snapW[d], snapR[d], graphClientsLock[d] >>

\* C23: the loops of two domains share no lock. While the pass of domain A
\* holds A's mutex inside an external call, however long, the loop of
\* another domain B can start its pass, take every step of it, sleep and
\* start again, a scrape can lock and render B's snapshot, and no step of
\* A's loop touches a lock of B.
C23_DomainsShareNoLock ==
    /\ [](\A A, B \in ListDomains :
            (A # B /\ alive /\ mu[A] /\ BlockedInCall(A))
              => /\ loopPc[B] = "collect" => ENABLED CollectLock(B)
                 /\ (loopPc[B] # "absent" /\ ~LoopWaits(B)) => ENABLED LoopStep(B)
                 /\ \A s \in Scrapers :
                      /\ (scPc[s] = "gather" /\ B \in scTodo[s] /\ RenderCanLock(B))
                           => ENABLED RenderLock(s, B)
                      /\ (scPc[s] = "render" /\ scCur[s] = B)
                           => ENABLED (RenderEmit(s) \/ RenderPanic(s)))
    /\ [][\A A, B \in ListDomains :
            (A # B /\ mu[A] /\ << loopPc[A], gcPc[A] >>' # << loopPc[A], gcPc[A] >>)
              => LocksOf(B)' = LocksOf(B)]_vars

\* C23 witness: the users pass has been inside a page fetch since its first
\* cycle and holds the users mutex, while the devices loop has run all its
\* cycles and a scrape has answered with the devices samples
C23_Witness ==
    /\ cycle["users"] = 1
    /\ mu["users"]
    /\ loopPc["users"] = "page"
    /\ res["users"].next
    /\ fetched["users"] = MaxFetched
    /\ cycle["devices"] = MaxCycles
    /\ loopPc["devices"] = "sleep"
    /\ \E s \in Scrapers :
         /\ lastResp[s].status = 200
         /\ DOMAIN exposition[s]["devices"].info # {}

\* C24: a pass handles the tenants one after the other in the order of
\* GetTenants: it starts with the first, every call and every cache write
\* of an iteration is for that iteration's tenant, the next tenant's work
\* begins only when the previous tenant's is over, and collect returns
\* only after the last tenant.
C24_TenantsInOrder ==
    /\ [](\A d \in Domains :
            /\ loopPc[d] \in InCollect => tIdx[d] \in 1..(Len(GetTenants) + 1)
            /\ loopPc[d] \in InCollect \ {"tenant"}
                 => /\ tIdx[d] <= Len(GetTenants)
                    /\ gcTenant[d] = GetTenants[tIdx[d]]
            /\ loopPc[d] \in {"first", "firstChk", "page", "nextChk", "stat"}
                 => gcRet[d].client.tenant = EffectiveTenant(GetTenants[tIdx[d]]))
    /\ [][\A d \in Domains :
            /\ (loopPc[d] = "collect" /\ loopPc'[d] # "collect")
                 => loopPc'[d] = "tenant" /\ tIdx'[d] = 1
            /\ (loopPc[d] \in InCollect /\ loopPc'[d] \in InCollect /\ tIdx'[d] # tIdx[d])
                 => /\ tIdx'[d] = tIdx[d] + 1
                    /\ loopPc[d] \in {"client", "firstChk", "write"}
                    /\ loopPc'[d] = "tenant"
            /\ (loopPc[d] \in InCollect /\ loopPc'[d] = "sleep")
                 => tIdx[d] = Len(GetTenants) + 1
            /\ Snapshot(d)' # Snapshot(d)
                 => /\ loopPc[d] = "write"
                    /\ \A t \in DOMAIN Snapshot(d) \ {GetTenants[tIdx[d]]} :
                         Snapshot(d)'[t] = Snapshot(d)[t]
                    /\ DOMAIN Snapshot(d)' = DOMAIN Snapshot(d) \cup {GetTenants[tIdx[d]]}]_vars

\* C24 witness: in a two-tenant deployment the first tenant's list was
\* stored in this pass and the second tenant's first page is being fetched
C24_Witness ==
    \E d \in ListDomains :
      /\ Len(GetTenants) = 2
      /\ tIdx[d] = 2
      /\ loopPc[d] = "first"
      /\ cycle[d] = 1
      /\ lastScrapeTime[d][GetTenants[1]] = 1
      /\ GetTenants[1] \in DOMAIN Snapshot(d)
      /\ GetTenants[2] \notin DOMAIN Snapshot(d)

\* C25: when a scrape has rendered the users or the devices collector, its
\* exposition holds, for every tenant of the snapshot the render read, the
\* total gauge of that tenant with the length of the tenant's cached list;
\* the snapshot does not change while the render holds the read lock.
C25_TotalIsLengthOfSnapshot ==
    /\ [](\A d \in ListDomains : snapR[d] # {} => ~snapW[d])
    /\ [][\A s \in Scrapers : \A d \in ListDomains :
            /\ snapR[d] # {} => Snapshot(d)' = Snapshot(d)
            /\ (scPc[s] = "render" /\ scCur[s] = d /\ scPc'[s] # "render")
                 => \A t \in DOMAIN Snapshot(d) :
                      /\ [tenant_id |-> t] \in DOMAIN exposition'[s][d].total
                      /\ exposition'[s][d].total[[tenant_id |-> t]] = Len(Snapshot(d)[t])]_vars

\* C26: in the users and devices domains, when the client of tenant T
\* cannot be acquired or T's first page fetch fails, the pass counts exactly
\* one error for T and moves to the next tenant: T's cache entry has not
\* been written in this iteration, and no pagination fetch is made for T.
C26_EarlyFailureLeavesEntry ==
    [][\A d \in ListDomains :
         /\ loopPc[d] \in {"tenant", "client", "first", "firstChk"}
              => /\ Snapshot(d)' = Snapshot(d)
                 /\ loopPc'[d] # "nextChk"
                 /\ ~TenantFailed(d) => scrapeErrors'[d] = scrapeErrors[d]
         /\ (loopPc[d] \in {"client", "firstChk"} /\ TenantFailed(d)
               /\ loopPc'[d] \notin {loopPc[d], "panic"})
              => /\ scrapeErrors'[d] =
                      [scrapeErrors[d] EXCEPT ![GetTenants[tIdx[d]]] = @ + 1]
                 /\ loopPc'[d] = "tenant"
                 /\ tIdx'[d] = tIdx[d] + 1
                 /\ fetched'[d] = fetched[d]
         /\ (loopPc[d] # "page" /\ loopPc'[d] = "page")
              => loopPc[d] \in {"firstChk", "nextChk"} /\ err[d] = ""]_vars

\* C26 witness: the tenant's list was stored in cycle 1; in cycle 2 the
\* tenant failed before its first page arrived, one error is counted and
\* the entry of cycle 1 is still the cached one
C26_Witness ==
    \E d \in ListDomains :
      LET T == GetTenants[1] IN
      /\ cycle[d] = 2
      /\ loopPc[d] = "tenant"
      /\ tIdx[d] = 2
      /\ scrapeErrors[d][T] = 1
      /\ T \in DOMAIN Snapshot(d)
      /\ lastScrapeTime[d][T] = 1
      /\ Snapshot(d)[T] = FullList(d, T)

\* every collect invocation of domain d returns
CollectReturns(d) == (loopPc[d] \in InCollect) ~> (loopPc[d] \notin InCollect)

\* C27: while the process runs and every collect invocation returns, the
\* loop of an enabled domain reaches every invocation the model counts.
\* The first invocation follows the spawn with no sleep before it; an
\* invocation is followed by one sleep that starts when the invocation has
\* ended, lasts the whole configured interval, and is over before the next
\* invocation starts.
C27_CollectRepeatsAfterFullSleep ==
    /\ \A d \in Domains :
         ([]alive /\ CollectReturns(d))
           => <>(~IsEnabled(scrapeTime[d])
                   \/ (cycle[d] = MaxCycles /\ loopPc[d] = "sleep"))
    /\ [][\A d \in Domains :
            /\ (loopPc[d] = "absent" /\ loopPc'[d] # "absent")
                 => loopPc'[d] = "collect" /\ cycle'[d] = 0 /\ sleepLeft'[d] = 0
            /\ cycle'[d] # cycle[d]
                 => /\ loopPc[d] = "collect"
                    /\ cycle'[d] = cycle[d] + 1
                    /\ sleepLeft[d] = 0
            /\ (loopPc[d] # "sleep" /\ loopPc'[d] = "sleep")
                 => /\ loopPc[d] \in {"tenant", "panic"}
                    /\ sleepLeft'[d] = scrapeTime[d]
                    /\ ~mu'[d]
            /\ (loopPc[d] = "sleep" /\ loopPc'[d] = "sleep")
                 => sleepLeft'[d] \in {sleepLeft[d], sleepLeft[d] - 1}
            /\ (loopPc[d] = "sleep" /\ loopPc'[d] # "sleep")
                 => sleepLeft[d] = 0 /\ loopPc'[d] = "collect"
            /\ (loopPc[d] # "collect" /\ loopPc'[d] = "collect")
                 => loopPc[d] \in {"absent", "sleep"}]_vars

\* C27 witness: no invocation failed, and the loop has slept the whole
\* interval after its last counted invocation
C27_Witness ==
    \E d \in Domains :
      /\ faults = MaxFaults
      /\ cycle[d] = MaxCycles
      /\ loopPc[d] = "sleep"
      /\ sleepLeft[d] = 0

\* C28: GetGraphClient names its two credential failures apart: "failed to
\* create credential" is returned by the credential's creation and by no
\* other step, "failed to validate credential" by the token request and by
\* no other step, both with a nil client and nothing stored. The token is
\* requested only after the credential was created, and the client is
\* constructed and stored only after the token was obtained.
C28_CredentialFailuresDistinct ==
    [][/\ \A c \in Callers :
            /\ (gcPc[c] # "ret" /\ gcPc'[c] = "ret"
                  /\ gcRet'[c].err = "failed to create credential")
                 => gcPc[c] = "cred"
            /\ (gcPc[c] # "ret" /\ gcPc'[c] = "ret"
                  /\ gcRet'[c].err = "failed to validate credential")
                 => gcPc[c] = "token"
            /\ (gcPc[c] = "cred" /\ gcPc'[c] # "cred")
                 => \/ gcPc'[c] = "token"
                    \/ /\ gcPc'[c] = "ret"
                       /\ gcRet'[c] = [client |-> NoClient,
                                       err |-> "failed to create credential"]
                    \/ gcPc'[c] = "idle" /\ c \in Domains /\ loopPc'[c] = "panic"
            /\ (gcPc[c] = "token" /\ gcPc'[c] # "token")
                 => \/ gcPc'[c] = "auth"
                    \/ /\ gcPc'[c] = "ret"
                       /\ gcRet'[c] = [client |-> NoClient,
                                       err |-> "failed to validate credential"]
                    \/ gcPc'[c] = "idle" /\ c \in Domains /\ loopPc'[c] = "panic"
            /\ (gcPc[c] \in {"cred", "token"} /\ gcPc'[c] # gcPc[c])
                 => UNCHANGED << graphClients, created >>
            /\ (gcPc[c] # "token" /\ gcPc'[c] = "token") => gcPc[c] = "cred"
            /\ (gcPc[c] # "auth" /\ gcPc'[c] = "auth") => gcPc[c] = "token"
            /\ (gcPc[c] # "adapter" /\ gcPc'[c] = "adapter") => gcPc[c] = "auth"
       /\ \A f \in Domains :
            (created'[f] # created[f] \/ graphClients'[f] # graphClients[f])
              => \E c \in Callers :
                   /\ FactoryOf(c) = f
                   /\ gcPc[c] = "adapter"
                   /\ gcPc'[c] = "ret"
                   /\ gcRet'[c].err = ""
                   /\ created'[f] = created[f] + 1
                   /\ graphClients'[f] = MapPut(graphClients[f], gcKey[c], gcRet'[c].client)]_vars

\* C28 witness: after one counted failure, the client request of the second
\* cycle has failed at the token request, and no client was built or stored
C28_Witness ==
    \E d \in Domains :
      /\ cycle[d] = 2
      /\ \E t \in TenantIDs : scrapeErrors[d][t] = 1
      /\ gcPc[d] = "ret"
      /\ gcRet[d].err = "failed to validate credential"
      /\ created[d] = 0
      /\ graphClients[d] = EmptyMap

\* C29: in a pass of the users or the devices domain no page of a tenant
\* is fetched more often than the source holds pages for it, and once as
\* many pages have arrived as the source holds the pagination loop is over.
C29_PaginationTerminates ==
    \A d \in ListDomains :
      (Len(GetTenants) = 1 /\ loopPc[d] \in {"page", "nextChk"} /\ err[d] = "")
        => LET pages == Len(Directory(d, gcRet[d].client.tenant)) IN
           /\ fetched[d] <= pages
           /\ (loopPc[d] = "page" /\ fetched[d] = pages) => ~res[d].next

\* the label sets the snapshot of d stands for: one per cached entity, or
\* one per cached statistic
SnapshotLabels(d) ==
    IF d = "general"
      THEN UNION { { [tenant_id |-> t, metric |-> m] : m \in DOMAIN stats[t] } :
                   t \in DOMAIN stats }
      ELSE UNION { InfoPrefix(d, t, Len(Snapshot(d)[t])) : t \in DOMAIN Snapshot(d) }

\* C30: the samples a scrape exposes for a domain are those of the domain's
\* snapshot at that scrape and no others: an entity, tenant or statistic
\* that is not in the snapshot is not exposed, whatever earlier snapshots
\* held.
C30_ExposedIsCurrentSnapshot ==
    [][\A s \in Scrapers : \A d \in Domains :
         (scPc[s] = "render" /\ scCur[s] = d /\ scPc'[s] = "gather")
           => /\ DOMAIN exposition'[s][d].info \cup DOMAIN exposition'[s][d].stats
                   = SnapshotLabels(d)
              /\ DOMAIN exposition'[s][d].total
                   = IF d = "general" THEN {}
                     ELSE { [tenant_id |-> t] : t \in DOMAIN Snapshot(d) }]_vars

\* the loop of d is at a lock acquisition that cannot be granted now
LoopBlocked(d) ==
    /\ \/ loopPc[d] \in {"collect", "store"}
       \/ loopPc[d] = "client" /\ gcPc[d] \in {"fast", "lock"}
    /\ ~ENABLED LoopStep(d)

\* the request of client s is at a read lock that cannot be granted now
ClientBlocked(s) ==
    /\ scPc[s] = "gather"
    /\ scTodo[s] # {}
    /\ ~ENABLED (\E d \in Domains : RenderLock(s, d))

\* C31: with one refresh loop and several concurrent scrapes of its domain
\* the domain mutex, the client cache lock and the snapshot lock never
\* deadlock. The loop and the scrapes are never all blocked on a lock; the
\* loop never waits for its mutex or its client cache lock; whoever waits
\* for the snapshot lock waits for holders that can go on. While the pass
\* waits for the write lock no new render gets the read lock, the write
\* lock can be taken as soon as the renders in progress have ended, and
\* while the process runs the waiting pass does get it.
C31_LocksNeverDeadlock ==
    /\ [](\A d \in Domains :
            (alive /\ loopPc[d] # "absent")
              => /\ ~(LoopBlocked(d) /\ \A s \in Clients : ClientBlocked(s))
                 /\ loopPc[d] = "collect" => ENABLED CollectLock(d)
                 /\ (loopPc[d] = "client" /\ gcPc[d] \in {"fast", "lock"})
                      => ENABLED GetGraphClient(d)
                 /\ loopPc[d] = "store"
                      => /\ \A r \in snapR[d] : ENABLED RenderEnds(r)
                         /\ snapR[d] = {} => ENABLED StoreLock(d)
                 /\ \A s \in Clients :
                      (scPc[s] = "gather" /\ d \in scTodo[s] /\ ~ENABLED RenderLock(s, d))
                        => \/ ENABLED (StoreLock(d) \/ StoreWrite(d))
                           \/ /\ snapR[d] # {}
                              /\ \A r \in snapR[d] : ENABLED RenderEnds(r))
    /\ [][\A d \in Domains :
            loopPc[d] = "store" => snapR'[d] \subseteq snapR[d]]_vars
    /\ \A d \in Domains :
         []alive => ((loopPc[d] = "store") ~> (loopPc[d] \in {"write", "panic"}))

\* C31 witness: the pass waits for the write lock behind a render that
\* holds the read lock, and another client's render waits behind the pass
C31_Witness ==
    \E d \in Domains : \E r, s \in Clients :
      /\ r # s
      /\ loopPc[d] = "store"
      /\ mu[d]
      /\ snapR[d] = {r}
      /\ scPc[r] = "render"
      /\ scPc[s] = "gather"
      /\ d \in scTodo[s]

\* C32: the cache changes only by the swap of one tenant's entry: the pass
\* holds the snapshot write lock with no reader inside, the entry of its
\* current tenant becomes the whole list the pass has built, every other
\* tenant's entry stays, and the lock is released in the same step. While
\* a render holds the read lock the cache does not change, and a render
\* that emits has read each tenant's list whole: the total is the list's
\* length and every entity of the list has its sample.
C32_SwapReplacesOneEntryWhole ==
    /\ [](\A d \in Domains : snapW[d] => (snapR[d] = {} /\ loopPc[d] = "write"))
    /\ [][\A d \in Domains :
            /\ Snapshot(d)' # Snapshot(d)
                 => LET T == GetTenants[tIdx[d]] IN
                    /\ loopPc[d] = "write" /\ snapW[d] /\ ~snapW'[d]
                    /\ DOMAIN Snapshot(d)' = DOMAIN Snapshot(d) \cup {T}
                    /\ Snapshot(d)'[T] = acc[d]
                    /\ \A t \in DOMAIN Snapshot(d) \ {T} :
                         Snapshot(d)'[t] = Snapshot(d)[t]
            /\ snapR[d] # {} => Snapshot(d)' = Snapshot(d)
            /\ \A s \in Scrapers :
                 (scPc[s] = "render" /\ scCur[s] = d /\ scPc'[s] = "gather"
                   /\ d \in ListDomains)
                   => \A t \in DOMAIN Snapshot(d) :
                        /\ exposition'[s][d].total[[tenant_id |-> t]]
                             = Len(Snapshot(d)[t])
                        /\ InfoPrefix(d, t, Len(Snapshot(d)[t]))
                             \subseteq DOMAIN exposition'[s][d].info]_vars

\* C32 witness: in cycle 2 the first tenant's entry has just been swapped,
\* the second tenant's entry of cycle 1 is still cached, and a render of
\* the domain is reading the cache
C32_Witness ==
    \E d \in Domains : \E s \in Scrapers :
      /\ Len(GetTenants) = 2
      /\ cycle[d] = 2
      /\ loopPc[d] = "tenant"
      /\ tIdx[d] = 2
      /\ lastScrapeTime[d][GetTenants[1]] = 2
      /\ lastScrapeTime[d][GetTenants[2]] = 1
      /\ DOMAIN Snapshot(d) = {GetTenants[1], GetTenants[2]}
      /\ scPc[s] = "render"
      /\ scCur[s] = d

\* C33: GetTenants never returns an empty list. It is the configured list,
\* unchanged and in order, when that list is not empty; else the one tenant
\* of the environment when one is set; else the one empty-string sentinel.
\* It is the same list at every step of the run, and each client request
\* of a pass is for one of its elements.
C33_GetTenantsNeverEmpty ==
    /\ [](/\ Len(GetTenants) >= 1
          /\ cfgTenants # << >> => GetTenants = cfgTenants
          /\ (cfgTenants = << >> /\ envTenant # "") => GetTenants = << envTenant >>
          /\ (cfgTenants = << >> /\ envTenant = "") => GetTenants = << "" >>
          /\ \A d \in Domains :
               loopPc[d] = "client"
                 => \E i \in 1..Len(GetTenants) : gcTenant[d] = GetTenants[i])
    /\ [][GetTenants' = GetTenants]_vars

\* C33 witness: nothing is configured, the environment names a tenant, and
\* the second pass requests the client of that tenant
C33_Witness ==
    \E d \in Domains :
      /\ cfgTenants = << >>
      /\ envTenant # ""
      /\ cycle[d] = 2
      /\ loopPc[d] = "client"
      /\ gcTenant[d] = envTenant

====
